---- MODULE Spec2Model ----
(***************************************************************************)
(* A model of silence/server/endpoint.py: the registration of one endpoint *)
(* (setup_endpoint), the request handler it builds (route_handler), and    *)
(* the result shaper (filter_query_results); and of the generation of the  *)
(* CRUD endpoints of the tables in silence/server/endpoint_creator.py      *)
(* (create_entity_endpoints).                                              *)
(*                                                                         *)
(* Python strings are TLA+ strings, read character by character with       *)
(* SubSeq/Len.  Python's None is an explicit tag on the value it replaces. *)
(***************************************************************************)
EXTENDS Integers, Sequences, FiniteSets, TLC

VARIABLES
    pc,          \* where the process is: registration, serving, a call of the shaper
    settings,    \* silence.settings: USER_AUTH_DATA's role column, the users table's key
    decl,        \* the arguments of setup_endpoint
    closure,     \* what route_handler captures: sql_params, url_params, sql_op, logged_user
    app_rules,   \* server_manager.APP's url rules
    api_summary, \* server_manager.API_SUMMARY's endpoints
    log,         \* the warnings and errors logged by setup_endpoint
    request,     \* the request route_handler last served
    response,    \* its response: status and body
    dal_calls,   \* the calls it made to the data layer, in order
    fq,          \* one call of filter_query_results: arguments, locals, result
    schema,      \* the database: each table's primary key and whether it auto-increments
    existing_routes_method_pairs, \* the (route, method) pairs of the user's own endpoints
    tables,      \* get_tables(): the tables in order, each with its list of columns
    table_index, \* the table the loop of create_entity_endpoints is at
    endpoints,   \* the endpoints generated so far for that table
    ep_tuples,   \* their tuples for the JS file of the table
    files        \* the files under endpoints/auto and web/js/api

creator_vars == <<schema, existing_routes_method_pairs, tables, table_index, endpoints,
                  ep_tuples, files>>

vars == <<pc, settings, decl, closure, app_rules, api_summary, log,
          request, response, dal_calls, fq, creator_vars>>

-----------------------------------------------------------------------------
(* Bounds of the explored inputs.                                          *)

MaxRows == 4

MaxPageRows == 10

MaxFilterRows == 3

-----------------------------------------------------------------------------
(* Python strings.                                                         *)

Ch(s, i) == SubSeq(s, i, i)

UpperCase == "ABCDEFGHIJKLMNOPQRSTUVWXYZ"

LowerCase == "abcdefghijklmnopqrstuvwxyz"

Digits == "0123456789"

\* Characters in code-point order, for the comparison of two str values.
Ascii == " $%*,-/0123456789<=>ABCDEFGHIJKLMNOPQRSTUVWXYZ_abcdefghijklmnopqrstuvwxyz"

CharsOf(s) == {Ch(s, i) : i \in 1..Len(s)}

IndexIn(s, c) == CHOOSE i \in 1..Len(s) : Ch(s, i) = c

UpperChars == CharsOf(UpperCase)

LowerChars == CharsOf(LowerCase)

DigitChars == CharsOf(Digits)

WordChars == UpperChars \cup LowerChars \cup DigitChars \cup {"_"}

\* The regular expression class \w.
IsWordChar(c) == c \in WordChars

StartsWith(s, p) == Len(s) >= Len(p) /\ SubSeq(s, 1, Len(p)) = p

EndsWith(s, p) == Len(s) >= Len(p) /\ SubSeq(s, Len(s) - Len(p) + 1, Len(s)) = p

\* p in s
Contains(s, p) == \E i \in 1..(Len(s) - Len(p) + 1) : SubSeq(s, i, i + Len(p) - 1) = p

LowerChar(c) == IF c \in UpperChars THEN Ch(LowerCase, IndexIn(UpperCase, c)) ELSE c

UpperChar(c) == IF c \in LowerChars THEN Ch(UpperCase, IndexIn(LowerCase, c)) ELSE c

RECURSIVE Lower(_)
\* str.lower()
Lower(s) == IF s = "" THEN "" ELSE LowerChar(Head(s)) \o Lower(Tail(s))

RECURSIVE Upper(_)
\* str.upper()
Upper(s) == IF s = "" THEN "" ELSE UpperChar(Head(s)) \o Upper(Tail(s))

RECURSIVE StrLt(_, _)
\* a < b on two str values
StrLt(a, b) ==
    IF b = "" THEN FALSE
    ELSE IF a = "" THEN TRUE
    ELSE IF Head(a) = Head(b) THEN StrLt(Tail(a), Tail(b))
    ELSE IndexIn(Ascii, Head(a)) < IndexIn(Ascii, Head(b))

RECURSIVE DigitsValue(_, _)
DigitsValue(s, acc) ==
    IF s = "" THEN acc
    ELSE DigitsValue(Tail(s), 10 * acc + (IndexIn(Digits, Head(s)) - 1))

AllDigits(s) == s # "" /\ \A i \in 1..Len(s) : Ch(s, i) \in DigitChars

NoInt == [none |-> TRUE, n |-> 0]

SomeInt(n) == [none |-> FALSE, n |-> n]

\* int(x) inside try/except (ValueError, TypeError): x is None when the key is
\* missing; an optional sign and decimal digits parse, anything else is None.
TryInt(args, key) ==
    IF key \notin DOMAIN args THEN NoInt
    ELSE LET s == args[key] IN
         IF AllDigits(s) THEN SomeInt(DigitsValue(s, 0))
         ELSE IF Len(s) > 1 /\ Head(s) = "-" /\ AllDigits(Tail(s))
              THEN SomeInt(0 - DigitsValue(Tail(s), 0))
         ELSE IF Len(s) > 1 /\ Head(s) = "+" /\ AllDigits(Tail(s))
              THEN SomeInt(DigitsValue(Tail(s), 0))
         ELSE NoInt

RECURSIVE NatToStr(_)
NatToStr(n) == IF n < 10 THEN Ch(Digits, n + 1) ELSE NatToStr(n \div 10) \o Ch(Digits, (n % 10) + 1)

-----------------------------------------------------------------------------
(* Column values of a row: None, an int or a str.                          *)

Null == [t |-> "null", i |-> 0, s |-> ""]

IntV(n) == [t |-> "int", i |-> n, s |-> ""]

StrV(x) == [t |-> "str", i |-> 0, s |-> x]

\* The sentinel of silence.utils.min_type.
Min == [t |-> "Min", i |-> 0, s |-> ""]

\* str(value)
Str(v) ==
    IF v.t = "null" THEN "None"
    ELSE IF v.t = "int" THEN (IF v.i < 0 THEN "-" \o NatToStr(0 - v.i) ELSE NatToStr(v.i))
    ELSE v.s

-----------------------------------------------------------------------------
(* Sequences.                                                              *)

RECURSIVE Reverse(_)
Reverse(s) == IF s = <<>> THEN <<>> ELSE Append(Reverse(Tail(s)), Head(s))

\* seq[a:b], with Python's handling of negative and out-of-range indices
PySlice(seq, a, b) ==
    LET n  == Len(seq)
        lo == IF a < 0 THEN (IF n + a < 0 THEN 0 ELSE n + a) ELSE (IF a > n THEN n ELSE a)
        hi == IF b < 0 THEN (IF n + b < 0 THEN 0 ELSE n + b) ELSE (IF b > n THEN n ELSE b)
    IN  IF lo < hi THEN SubSeq(seq, lo + 1, hi) ELSE <<>>

-----------------------------------------------------------------------------
(* filter_query_results(data, args): args is the query string, a function  *)
(* from its keys to their (first) values; data is a sequence of rows, each *)
(* a function from its column names to values.                             *)

NoStr == [none |-> TRUE, s |-> ""]

SomeStr(x) == [none |-> FALSE, s |-> x]

\* args.get(key)
ArgsGet(args, key) == IF key \in DOMAIN args THEN SomeStr(args[key]) ELSE NoStr

\* the truth value of an optional int: None and 0 are false
Truthy(x) == ~x.none /\ x.n # 0

\* [pair for pair in args.items() if not pair[0].startswith("_")], by key
filter_criteria(args) == {k \in DOMAIN args : ~StartsWith(k, "_")}

filter_func_no_lower(args, elem) ==
    \A k \in filter_criteria(args) :
        k \notin DOMAIN elem \/ Str(elem[k]) = args[k]

filter_func(args, elem) ==
    \A k \in filter_criteria(args) :
        k \notin DOMAIN elem \/ Lower(Str(elem[k])) = Lower(args[k])

order_key_raw(sort_param, elem) == elem[sort_param]

order_key_func(sort_param, elem) ==
    LET v == elem[sort_param] IN IF v # Null THEN v ELSE Min

\* a < b between two sort keys that can be compared
KeyLt(a, b) ==
    IF a.t = "Min" THEN b.t # "Min"
    ELSE IF b.t = "Min" THEN FALSE
    ELSE IF a.t = "int" THEN a.i < b.i
    ELSE StrLt(a.s, b.s)

\* Whether a < b is defined: None against anything, and an int against a
\* str, raise TypeError; the sentinel compares with every value.
Comparable(a, b) ==
    \/ a.t = "Min"
    \/ b.t = "Min"
    \/ (a.t = b.t /\ a.t \in {"int", "str"})

\* One step of a stable insertion: x goes before the first item whose key is
\* greater than x's, after every item whose key is not.
InsertByKey(sorted, x) ==
    LET later == {j \in 1..Len(sorted) : KeyLt(x.k, sorted[j].k)}
        at    == IF later = {} THEN Len(sorted) + 1
                 ELSE CHOOSE j \in later : \A m \in later : j <= m
    IN  SubSeq(sorted, 1, at - 1) \o <<x>> \o SubSeq(sorted, at, Len(sorted))

RECURSIVE SortAscending(_)
SortAscending(items) ==
    IF items = <<>> THEN <<>>
    ELSE InsertByKey(SortAscending(SubSeq(items, 1, Len(items) - 1)), items[Len(items)])

\* list.sort(key=..., reverse=...) on rows already paired with their keys:
\* a stable sort; reverse=True reverses, sorts and reverses again, so rows
\* with equal keys keep their order in both directions.
ListSort_forward(items, reverse) == SortAscending(items)

ListSort(items, reverse) ==
    IF reverse THEN Reverse(SortAscending(Reverse(items))) ELSE SortAscending(items)

\* try: res.sort(key=order_key_func, reverse=sort_reverse) / except KeyError: pass
\* The keys are computed first: a row without the sort column (or no sort
\* column at all) raises KeyError and leaves res as it is.
SortStep(res, sort_param, sort_reverse) ==
    LET key_error == res # <<>> /\ (sort_param.none
                                     \/ \E i \in 1..Len(res) : sort_param.s \notin DOMAIN res[i])
        items == [i \in 1..Len(res) |-> [k |-> order_key_func(sort_param.s, res[i]), e |-> res[i]]]
        type_error == \E i, j \in 1..Len(res) : i # j /\ ~Comparable(items[i].k, items[j].k)
        done == ListSort(items, sort_reverse)
    IN  IF key_error THEN [res |-> res, raised |-> ""]
        ELSE IF type_error THEN [res |-> res, raised |-> "TypeError"]
        ELSE [res |-> [i \in 1..Len(res) |-> done[i].e], raised |-> ""]

PageStep_top_is_limit(res, limit, page) ==
    LET offset == IF Truthy(limit) /\ Truthy(page) THEN limit.n * page.n ELSE 0
        top    == IF Truthy(limit) THEN limit.n ELSE Len(res)
    IN  PySlice(res, offset, top)

PageStep(res, limit, page) ==
    LET offset == IF Truthy(limit) /\ Truthy(page) THEN limit.n * page.n ELSE 0
        top    == IF Truthy(limit) THEN offset + limit.n ELSE Len(res)
    IN  PySlice(res, offset, top)

filter_query_results(data, args) ==
    LET sort_param   == ArgsGet(args, "_sort")
        sort_reverse == ArgsGet(args, "_order") = SomeStr("desc")
        limit        == TryInt(args, "_limit")
        page         == TryInt(args, "_page")
        filtered     == SelectSeq(data, LAMBDA elem : filter_func(args, elem))
        sorted       == SortStep(filtered, sort_param, sort_reverse)
    IN  [filtered |-> filtered,
         sorted   |-> sorted.res,
         raised   |-> sorted.raised,
         out      |-> IF sorted.raised = "" THEN PageStep(sorted.res, limit, page) ELSE <<>>]

-----------------------------------------------------------------------------------------------------------------------------------------------------
(* The inputs filter_query_results is explored on: three families of       *)
(* result sets and query strings.  A result set is what one SELECT         *)
(* returned: its rows have the same columns, and a column holds None and   *)
(* values of one type.  Every row carries its position in the result set   *)
(* as column "id".                                                         *)

Row(i, cells) == [c \in {"id"} \cup DOMAIN cells |-> IF c = "id" THEN IntV(i) ELSE cells[c]]

ResultSets(cells, max) ==
    UNION {{[i \in 1..n |-> Row(i, f[i])] : f \in [1..n -> cells]} : n \in 0..max}

ArgsFrom(pairs) == [k \in {p[1] : p \in pairs} |-> (CHOOSE p \in pairs : p[1] = k)[2]]

OptArg(k, vals) == {{}} \cup {{<<k, v>>} : v \in vals}

\* sorting: a nullable int column, or a nullable str column
SortData ==
    ResultSets([v : {Null, IntV(2), IntV(5)}], MaxRows)
        \cup ResultSets([v : {Null, StrV("Bob"), StrV("al")}], MaxRows)

SortArgs ==
    {ArgsFrom(a \cup b) : a \in OptArg("_sort", {"v", "zz"}), b \in OptArg("_order", {"desc", "asc"})}

\* paging: longer result sets, every spelling of _limit and _page
PageData == {[i \in 1..n |-> Row(i, [v |-> IntV(i % 3)])] : n \in 0..MaxPageRows}

PageArgs ==
    {ArgsFrom(a \cup b \cup c) :
        a \in OptArg("_limit", {"0", "1", "2", "3", "abc", "-1"}),
        b \in OptArg("_page", {"0", "1", "2", "abc", "-1"}),
        c \in {{}, {<<"_sort", "v">>}, {<<"_sort", "v">>, <<"_order", "desc">>}}}

\* filtering: a str column, a nullable int column, and result sets with and
\* without a column whose name starts with an underscore
FilterData ==
    ResultSets([name : {StrV("Bob"), StrV("al")}, v : {Null, IntV(1)}], MaxFilterRows)
        \cup ResultSets([v : {Null, IntV(1)}, _x : {IntV(1)}], MaxFilterRows)

FilterArgs ==
    {ArgsFrom(a \cup b \cup c) :
        a \in OptArg("name", {"BOB", "al"}),
        b \in OptArg("v", {"1", "none"}),
        c \in OptArg("_x", {"2"})}

ShaperInputs ==
    (SortData \X SortArgs) \cup (PageData \X PageArgs) \cup (FilterData \X FilterArgs)

-----------------------------------------------------------------------------
(* The values of the variables a specification does not use.               *)

NoSettings == [api_prefix |-> "", role |-> NoStr, pk |-> NoStr]

NoDecl == [route |-> "", method |-> "", sql |-> "", auth_required |-> FALSE,
           allowed_roles |-> [is_list |-> TRUE, items |-> <<>>], request_body_params |-> <<>>]

NoClosure == [sql_params |-> <<>>, url_params |-> <<>>, sql_op |-> NoStr, logged_user |-> FALSE]

NoRequest == [served |-> FALSE]

NoResponse == [status |-> 0]

NoCall == [data |-> <<>>, args |-> <<>>, filtered |-> <<>>, sorted |-> <<>>,
           raised |-> "", out |-> <<>>]

\* create_entity_endpoints has not been called
CreatorIdle ==
    /\ schema = <<>>
    /\ existing_routes_method_pairs = {}
    /\ tables = <<>>
    /\ table_index = 0
    /\ endpoints = <<>>
    /\ ep_tuples = <<>>
    /\ files = <<>>

-----------------------------------------------------------------------------
(* The specification of the result shaper alone.                           *)

InitShaper ==
    /\ pc = "shaper_called"
    /\ settings = NoSettings
    /\ decl = NoDecl
    /\ closure = NoClosure
    /\ app_rules = {}
    /\ api_summary = <<>>
    /\ log = {}
    /\ request = NoRequest
    /\ response = NoResponse
    /\ dal_calls = <<>>
    /\ CreatorIdle
    /\ \E in \in ShaperInputs :
          fq = [NoCall EXCEPT !.data = in[1], !.args = in[2]]

FilterQueryResults ==
    /\ pc = "shaper_called"
    /\ LET r == filter_query_results(fq.data, fq.args) IN
          fq' = [fq EXCEPT !.filtered = r.filtered, !.sorted = r.sorted,
                           !.raised = r.raised, !.out = r.out]
    /\ pc' = "shaper_returned"
    /\ UNCHANGED <<settings, decl, closure, app_rules, api_summary, log,
                   request, response, dal_calls, creator_vars>>

NextShaper == FilterQueryResults

SpecShaper == InitShaper /\ [][NextShaper]_vars

-----------------------------------------------------------------------------
(* Placeholders: $ followed by word characters.                            *)

RECURSIVE WordRunEnd(_, _)
\* the end of the run of word characters that starts at position i
WordRunEnd(s, i) == IF i < Len(s) /\ IsWordChar(Ch(s, i + 1)) THEN WordRunEnd(s, i + 1) ELSE i

\* whether \$\w+ matches at position i
PlaceholderAt(s, i) == i < Len(s) /\ Ch(s, i) = "$" /\ IsWordChar(Ch(s, i + 1))

RECURSIVE FindParams(_, _)
FindParams(s, i) ==
    IF i > Len(s) THEN <<>>
    ELSE IF PlaceholderAt(s, i)
         THEN <<SubSeq(s, i + 1, WordRunEnd(s, i + 1))>> \o FindParams(s, WordRunEnd(s, i + 1) + 1)
         ELSE FindParams(s, i + 1)

\* extract_params keeping only the first occurrence of each name
extract_params_distinct(string) ==
    LET ps     == FindParams(string, 1)
        firsts == {i \in 1..Len(ps) : \A j \in 1..(i - 1) : ps[j] # ps[i]}
    IN  [k \in 1..Cardinality(firsts) |->
            ps[CHOOSE i \in firsts : Cardinality({j \in firsts : j <= i}) = k]]

\* re.findall(r"\$\w+", string), each without its $
extract_params(string) == FindParams(string, 1)

RECURSIVE FlaskifyFrom(_, _)
FlaskifyFrom(s, i) ==
    IF i > Len(s) THEN ""
    ELSE IF PlaceholderAt(s, i)
         THEN "<" \o SubSeq(s, i + 1, WordRunEnd(s, i + 1)) \o ">"
                  \o FlaskifyFrom(s, WordRunEnd(s, i + 1) + 1)
         ELSE Ch(s, i) \o FlaskifyFrom(s, i + 1)

\* re.sub(r"\$(\w+)", r"<\1>", url)
flaskify_url(url) == FlaskifyFrom(url, 1)

RECURSIVE ToMysqlFrom(_, _)
ToMysqlFrom(s, i) ==
    IF i > Len(s) THEN ""
    ELSE IF PlaceholderAt(s, i)
         THEN "%s" \o ToMysqlFrom(s, WordRunEnd(s, i + 1) + 1)
         ELSE Ch(s, i) \o ToMysqlFrom(s, i + 1)

\* silence.sql.converter: every placeholder becomes the driver's %s
silence_to_mysql(sql) == ToMysqlFrom(sql, 1)

RE_QUERY_PARAM_unanchored(route) == \E k \in 1..Len(route) : PlaceholderAt(route, k)

\* RE_QUERY_PARAM.match(route): ^.*\$\w+/?$
RE_QUERY_PARAM_match(route) ==
    LET t == IF EndsWith(route, "/") THEN SubSeq(route, 1, Len(route) - 1) ELSE route
    IN  \E k \in 1..(Len(t) - 1) :
            /\ Ch(t, k) = "$"
            /\ \A m \in (k + 1)..Len(t) : IsWordChar(Ch(t, m))

\* silence.sql.get_sql_op: the leading keyword of the query, in lower case
get_sql_op(sql) ==
    IF sql # "" /\ IsWordChar(Head(sql)) THEN Lower(SubSeq(sql, 1, WordRunEnd(sql, 1))) ELSE ""

SELECT == "select"

INSERT == "insert"

UPDATE == "update"

DELETE == "delete"

OP_VERBS == (SELECT :> "get") @@ (INSERT :> "post") @@ (UPDATE :> "put") @@ (DELETE :> "delete")

InList(x, list) == \E i \in 1..Len(list) : list[i] = x

ListSet(list) == {list[i] : i \in 1..Len(list)}

-----------------------------------------------------------------------------
(* setup_endpoint.  Each check returns what it logged and whether it ended *)
(* the process (sys.exit(1)).                                              *)

check_method_without_exit(sql, verb, endpoint) ==
    LET sql_op == get_sql_op(sql) IN
    [exit |-> FALSE,
     log  |-> IF sql_op \notin DOMAIN OP_VERBS THEN {"error: unsupported query"}
              ELSE IF OP_VERBS[sql_op] # Lower(verb) THEN {"warn: wrong verb"} ELSE {}]

check_method(sql, verb, endpoint) ==
    LET sql_op == get_sql_op(sql) IN
    IF sql_op \in DOMAIN OP_VERBS
    THEN [exit |-> FALSE,
          log  |-> IF OP_VERBS[sql_op] # Lower(verb) THEN {"warn: wrong verb"} ELSE {}]
    ELSE [exit |-> TRUE, log |-> {"error: unsupported query"}]

check_auth_roles(auth_required, allowed_roles, method, route) ==
    IF ~allowed_roles.is_list
    THEN [exit |-> TRUE, log |-> {"error: allowed_roles is not a list"}]
    ELSE [exit |-> FALSE,
          log  |-> (IF ~auth_required /\ Len(allowed_roles.items) > 0 /\ allowed_roles.items # <<"*">>
                    THEN {"warn: roles without auth_required"} ELSE {})
                   \cup
                   (IF auth_required /\ Len(allowed_roles.items) = 0
                    THEN {"warn: noone has access"} ELSE {})]

check_params_match_keep_loggedId(sql_params, user_params, route) ==
    LET diff == ListSet(sql_params) \ ListSet(user_params)
    IN  IF diff # {} THEN [exit |-> TRUE, log |-> {"error: parameters not provided"}]
        ELSE [exit |-> FALSE, log |-> {}]

check_params_match(sql_params, user_params, route) ==
    LET diff == (ListSet(sql_params) \ ListSet(user_params)) \ {"loggedId"}
    IN  IF diff # {} THEN [exit |-> TRUE, log |-> {"error: parameters not provided"}]
        ELSE [exit |-> FALSE, log |-> {}]

NoExit == [exit |-> FALSE, log |-> {}]

\* The whole of setup_endpoint on the declaration d: the process exits at the
\* first check that fails; otherwise the handler, closed over the values
\* computed here, is added to the application and the endpoint to the summary.
setup_endpoint(d, prefix) ==
    LET logged_user  == Contains(d.sql, "$loggedId")
        warned       == IF logged_user /\ ~d.auth_required
                        THEN {"warn: loggedId may be NULL"} ELSE {}
        route_prefix == IF EndsWith(prefix, "/") THEN SubSeq(prefix, 1, Len(prefix) - 1) ELSE prefix
        full_route   == route_prefix \o d.route
        method_chk   == check_method(d.sql, d.method, d.route)
        roles_chk    == check_auth_roles(d.auth_required, d.allowed_roles, d.method, d.route)
        sql_params   == extract_params(d.sql)
        url_params   == extract_params(d.route)
        sql_op       == get_sql_op(d.sql)
        params_chk   == IF sql_op \in {SELECT, DELETE}
                        THEN check_params_match(sql_params, url_params, d.route)
                        ELSE IF sql_op \in {INSERT, UPDATE}
                        THEN check_params_match(sql_params, url_params \o d.request_body_params, d.route)
                        ELSE NoExit
        aborted(logged) == [exit |-> TRUE, log |-> logged, closure |-> NoClosure,
                            rules |-> {}, summary |-> <<>>]
    IN  IF method_chk.exit THEN aborted(warned \cup method_chk.log)
        ELSE IF roles_chk.exit THEN aborted(warned \cup method_chk.log \cup roles_chk.log)
        ELSE IF params_chk.exit
             THEN aborted(warned \cup method_chk.log \cup roles_chk.log \cup params_chk.log)
        ELSE [exit    |-> FALSE,
              log     |-> warned \cup method_chk.log \cup roles_chk.log,
              closure |-> [sql_params |-> sql_params, url_params |-> url_params,
                           sql_op |-> SomeStr(sql_op), logged_user |-> logged_user],
              rules   |-> {[rule |-> flaskify_url(full_route), endpoint |-> d.method \o d.route,
                            methods |-> {d.method}]},
              summary |-> <<[route |-> full_route, method |-> Upper(d.method)]>>]

SetupEndpoint ==
    /\ pc = "startup"
    /\ LET r == setup_endpoint(decl, settings.api_prefix) IN
          /\ pc' = IF r.exit THEN "exited" ELSE "serving"
          /\ log' = log \cup r.log
          /\ closure' = r.closure
          /\ app_rules' = app_rules \cup r.rules
          /\ api_summary' = api_summary \o r.summary
    /\ UNCHANGED <<settings, decl, request, response, dal_calls, fq, creator_vars>>

-----------------------------------------------------------------------------
(* route_handler.  A bound value says where it came from: the URL capture  *)
(* of a name, the request-body field of a name, a value of the caller's    *)
(* decoded token, or None.                                                 *)

UrlVal(name) == [src |-> "url", of |-> name]

BodyVal(name) == [src |-> "body", of |-> name]

UserVal(x) == [src |-> "user", of |-> x]

NoneVal == [src |-> "none", of |-> ""]

\* the result of a call that yields the user's data: None, a dict, or an
\* exception raised instead of a value
NoUser == [none |-> TRUE, data |-> <<>>, raised |-> ""]

SomeUser(data) == [none |-> FALSE, data |-> data, raised |-> ""]

Raised(exc) == [none |-> TRUE, data |-> <<>>, raised |-> exc]

\* silence.auth.tokens.check_token: the decoded data of a valid token; any
\* other token raises TokenError.
Sessions ==
    ("tok-admin" :> [userId |-> "1", Role |-> "admin"])
    @@ ("tok-user" :> [userId |-> "2", role |-> "user"])
    @@ ("tok-norole" :> [userId |-> "3"])

check_token(token) ==
    IF token \in DOMAIN Sessions THEN SomeUser(Sessions[token]) ELSE Raised("TokenError")

\* get_logged_user without its try/except: TokenError leaves the function
get_logged_user_uncaught(token) ==
    IF ~token.none /\ token.s # "" THEN check_token(token.s) ELSE NoUser

\* request.headers.get("Token"); a missing or empty header gives None, and so
\* does a token on which check_token raises TokenError, which is caught
get_logged_user(token) ==
    IF ~token.none /\ token.s # ""
    THEN LET checked == check_token(token.s) IN
         IF checked.raised = "TokenError" THEN NoUser ELSE checked
    ELSE NoUser

\* next((v for k, v in logged_user_data.items() if k.lower() == role_col_name.lower()), None)
RoleOf(data, role_col_name) ==
    LET keys == {k \in DOMAIN data : Lower(k) = Lower(role_col_name)}
    IN  IF keys = {} THEN NoStr ELSE SomeStr(data[CHOOSE k \in keys : TRUE])

check_session_any_role(logged_user_data, allowed_roles, role_col_name) ==
    IF logged_user_data.none THEN 401 ELSE 200

\* 401 when HTTPError(401) is raised, 200 when the function returns
check_session(logged_user_data, allowed_roles, role_col_name) ==
    IF logged_user_data.none THEN 401
    ELSE IF ~role_col_name.none /\ role_col_name.s # ""
         THEN LET user_role == RoleOf(logged_user_data.data, role_col_name.s) IN
              IF (user_role.none \/ ~InList(user_role.s, allowed_roles.items))
                    /\ ~InList("*", allowed_roles.items)
              THEN 401 ELSE 200
         ELSE 200

\* pk is get_primary_key(settings.USER_AUTH_DATA['table'])
get_current_user_id(logged_user_data, pk) ==
    IF logged_user_data.none THEN NoneVal
    ELSE IF ~pk.none /\ pk.s # "" THEN UserVal(logged_user_data.data[pk.s])
    ELSE NoneVal

Fail(status, calls) == [status |-> status, body |-> "error", rows |-> <<>>, calls |-> calls]

\* The whole of route_handler for the endpoint (d, c) on the request req:
\* the response and the calls made to the data layer.  An exception that is
\* not an HTTPError (KeyError, TypeError) ends the request with status 500.
route_handler(d, c, cfg, req) ==
    LET logged_user_data == get_logged_user(req.token)
        gate == IF d.auth_required
                THEN check_session(logged_user_data, d.allowed_roles, cfg.role) ELSE 200
        request_url_params_dict ==
            IF c.logged_user
            THEN [k \in DOMAIN req.kwargs \cup {"loggedId"} |->
                    IF k = "loggedId" THEN get_current_user_id(logged_user_data, cfg.pk)
                    ELSE req.kwargs[k]]
            ELSE req.kwargs
        query_string == silence_to_mysql(d.sql)
    IN  IF logged_user_data.raised # "" THEN Fail(500, <<>>)
        ELSE IF gate # 200 THEN Fail(gate, <<>>)
        ELSE IF c.sql_op = SomeStr(SELECT)
        THEN LET url_pattern_params == [i \in 1..Len(c.sql_params) |->
                                            request_url_params_dict[c.sql_params[i]]]
                 call == [fn |-> "api_safe_query", query |-> query_string,
                          params |-> url_pattern_params]
                 res  == filter_query_results(req.db_rows, req.args)
             IN  IF \E i \in 1..Len(c.sql_params) : c.sql_params[i] \notin DOMAIN request_url_params_dict
                 THEN Fail(500, <<>>)
                 ELSE IF res.raised # "" THEN Fail(500, <<call>>)
                 ELSE IF RE_QUERY_PARAM_match(d.route) /\ res.out = <<>> THEN Fail(404, <<call>>)
                 ELSE [status |-> 200, body |-> "rows", rows |-> res.out, calls |-> <<call>>]
        ELSE LET form == req.form
                 names == ListSet(d.request_body_params) \cup ListSet(c.url_params)
                 body_params == [k \in names |->
                                    IF InList(k, c.url_params) THEN request_url_params_dict[k]
                                    ELSE IF k \in DOMAIN form THEN form[k] ELSE NoneVal]
                 param_tuple == [i \in 1..Len(c.sql_params) |-> body_params[c.sql_params[i]]]
                 call == [fn |-> "api_safe_update", query |-> query_string, params |-> param_tuple]
             IN  IF \E i \in 1..Len(c.sql_params) : c.sql_params[i] \notin names
                 THEN Fail(500, <<>>)
                 ELSE [status |-> 200, body |-> "write result", rows |-> <<>>, calls |-> <<call>>]

-----------------------------------------------------------------------------
(* The declarations and requests the endpoint is explored on.              *)

Declarations(routes, methods, sqls, auths, roles, bodies) ==
    [route : routes, method : methods, sql : sqls, auth_required : auths,
     allowed_roles : roles, request_body_params : bodies]

Roles(items) == [is_list |-> TRUE, items |-> items]

\* a value of allowed_roles that is not a list, such as the string "admin"
NotAList == [is_list |-> FALSE, items |-> <<>>]

ReadQueries ==
    {"SELECT * FROM u",
     "SELECT * FROM u WHERE id = $id",
     "SELECT * FROM u WHERE o = $loggedId",
     "SELECT * FROM u WHERE id = $id AND o = $loggedId",
     "SELECT * FROM u WHERE id = $id OR up = $id",
     "SELECT * FROM u WHERE o = $loggedIdx"}

WriteQueries ==
    {"INSERT INTO u (nm) VALUES ($nm)",
     "INSERT INTO u (nm, o) VALUES ($nm, $loggedId)",
     "INSERT INTO u (id, nm, nn) VALUES ($id, $nm, $nm)",
     "INSERT INTO u (nm, id, nn) VALUES ($nm, $id, $nm)",
     "UPDATE u SET nm = $nm WHERE id = $id",
     "UPDATE u SET nm = $nm WHERE id = $id AND o = $loggedId",
     "UPDATE u SET o = $loggedId",
     "DELETE FROM u WHERE id = $id",
     "DELETE FROM u WHERE id = $id AND o = $loggedId",
     "DELETE FROM u WHERE o = $loggedId"}

OddQueries ==
    {"MERGE INTO u VALUES ($id)",
     "delete from u where nm = $nm",
     "SELECT $ FROM u WHERE o = $loggedIdx",
     ""}

ServedRoutes == {"/u", "/u/$id", "/u/$id/", "/u/$loggedId", "/u/$id/x", "/u/$loggedIdx"}

BodyParamLists == {<<>>, <<"nm", "loggedId">>, <<"id", "nm">>}

\* every declaration, for registration alone
SetupDecls ==
    Declarations(ServedRoutes \cup {"/$loggedIdx"},
                 {"get", "POST"},
                 ReadQueries \cup WriteQueries \cup OddQueries,
                 BOOLEAN,
                 {Roles(<<>>), Roles(<<"*">>), Roles(<<"admin">>), Roles(<<"admin", "user">>), NotAList},
                 BodyParamLists \cup {<<"nm">>})

\* the declarations requests are served on, each with its canonical verb
ServedDecls ==
    {d \in Declarations(ServedRoutes, {"get", "post", "put", "delete"},
                        ReadQueries \cup WriteQueries, BOOLEAN,
                        {Roles(<<>>), Roles(<<"*">>), Roles(<<"admin">>)}, BodyParamLists) :
        d.method = OP_VERBS[get_sql_op(d.sql)]}

\* no Token header, an empty one, one that fails verification, and valid ones
Tokens ==
    {NoStr, SomeStr(""), SomeStr("forged"), SomeStr("tok-admin"), SomeStr("tok-user"),
     SomeStr("tok-norole")}

\* what the data layer returns to a read, and the query strings of a read
ReadResults == ResultSets([name : {StrV("Bob")}], 1)

ReadArgs == {ArgsFrom({}), ArgsFrom({<<"name", "al">>})}

\* the fields a request body may carry
Forms ==
    {[k \in ks |-> BodyVal(k)] : ks \in {{}, {"nm"}, {"nm", "loggedId"}, {"id", "nm", "loggedId"}}}

\* The requests the router hands to the handler of declaration d: the URL
\* matched the rule, so there is one capture per placeholder of the route; a
\* read carries a query string and no body, a write a body and no query string.
Requests(d, c) ==
    LET kwargs == [k \in ListSet(c.url_params) |-> UrlVal(k)] IN
    IF c.sql_op = SomeStr(SELECT)
    THEN {[served |-> TRUE, token |-> t, kwargs |-> kwargs, form |-> <<>>,
           args |-> a, db_rows |-> r] : t \in Tokens, a \in ReadArgs, r \in ReadResults}
    ELSE {[served |-> TRUE, token |-> t, kwargs |-> kwargs, form |-> f,
           args |-> <<>>, db_rows |-> <<>>] : t \in Tokens, f \in Forms}

-----------------------------------------------------------------------------
(* The specifications of registration alone, and of registration followed  *)
(* by requests.                                                            *)

Startup(decls, cfgs) ==
    /\ pc = "startup"
    /\ settings \in cfgs
    /\ decl \in decls
    /\ closure = NoClosure
    /\ app_rules = {}
    /\ api_summary = <<>>
    /\ log = {}
    /\ request = NoRequest
    /\ response = NoResponse
    /\ dal_calls = <<>>
    /\ fq = NoCall
    /\ CreatorIdle

InitSetup ==
    Startup(SetupDecls, [api_prefix : {"/api/v1", "/api/"}, role : {NoStr}, pk : {NoStr}])

NextSetup == SetupEndpoint

SpecSetup == InitSetup /\ [][NextSetup]_vars

\* One request per behaviour: the handler reads nothing that an earlier
\* request wrote, so a second request would be served as a first one is.
RouteHandler ==
    /\ pc = "serving"
    /\ pc' = "responded"
    /\ \E req \in Requests(decl, closure) :
          LET r == route_handler(decl, closure, settings, req) IN
             /\ request' = req
             /\ response' = [status |-> r.status, body |-> r.body, rows |-> r.rows]
             /\ dal_calls' = r.calls
    /\ UNCHANGED <<settings, decl, closure, app_rules, api_summary, log, fq, creator_vars>>

Init ==
    Startup(ServedDecls,
            [api_prefix : {"/api/v1"}, role : {NoStr, SomeStr("role")}, pk : {NoStr, SomeStr("userId")}])

Next == SetupEndpoint \/ RouteHandler

Spec == Init /\ [][Next]_vars

-----------------------------------------------------------------------------
(* create_entity_endpoints (endpoint_creator.py).  A Python list is an     *)
(* object: table[1] is the list of columns held by get_tables()'s dict,    *)
(* here tables[i].columns; "param_list = table[1]" gives the same list a   *)
(* second name, and res["request_body_params"] = param_list stores a       *)
(* reference to it, which json.dumps reads when the file is written.       *)

\* list.remove(x): the list without the first occurrence of x
ListRemove(list, x) ==
    LET i == CHOOSE i \in 1..Len(list) : list[i] = x /\ \A j \in 1..(i - 1) : list[j] # x
    IN  SubSeq(list, 1, i - 1) \o SubSeq(list, i + 1, Len(list))

\* res[:-2]
DropLastTwo(res) == IF Len(res) >= 2 THEN SubSeq(res, 1, Len(res) - 2) ELSE ""

RECURSIVE CreateItems(_, _)
CreateItems(param_list, char_add) ==
    IF param_list = <<>> THEN ""
    ELSE char_add \o Head(param_list) \o ", " \o CreateItems(Tail(param_list), char_add)

RECURSIVE UpdateItems(_)
UpdateItems(param_list) ==
    IF param_list = <<>> THEN ""
    ELSE Head(param_list) \o " = $" \o Head(param_list) \o ", " \o UpdateItems(Tail(param_list))

\* (with neither flag the function returns None; it is never called so)
params_to_string(param_list, char_add, is_create, is_update) ==
    IF is_create THEN DropLastTwo("(" \o CreateItems(param_list, char_add)) \o ")"
    ELSE IF is_update THEN DropLastTwo(UpdateItems(param_list))
    ELSE "None"

\* a reference to the list of columns of the table at index i
ListOf(i) == [list_of_table |-> i]

generate_get_all(route, table) ==
    [route |-> route, method |-> "GET", sql |-> "SELECT * FROM " \o table.name,
     auth_required |-> FALSE, allowed_roles |-> <<"*">>,
     description |-> "Gets all " \o table.name]

generate_get_by_id(route, table, pk) ==
    [route |-> route, method |-> "GET",
     sql |-> "SELECT * FROM " \o table.name \o " WHERE " \o pk \o " = $" \o pk,
     auth_required |-> FALSE, allowed_roles |-> <<"*">>,
     description |-> "Gets an entry from '" \o table.name \o "' by its primary key"]

\* what generate_create leaves in the list table[1], which it appends to
\* under the name param_list
generate_create_param_list(table, pk, is_auto_increment) ==
    IF ~is_auto_increment THEN Append(table.columns, pk) ELSE table.columns

generate_create(route, table, ref, pk, is_auto_increment) ==
    LET param_list == generate_create_param_list(table, pk, is_auto_increment) IN
    [route |-> route, method |-> "POST",
     sql |-> "INSERT INTO " \o table.name \o params_to_string(param_list, "", TRUE, FALSE)
                \o " VALUES " \o params_to_string(param_list, "$", TRUE, FALSE),
     auth_required |-> TRUE, allowed_roles |-> <<"*">>,
     description |-> "Creates a new entry in '" \o table.name \o "'",
     request_body_params |-> ref]

generate_update(route, table, ref, pk) ==
    LET param_list == table.columns IN
    [route |-> route, method |-> "PUT",
     sql |-> "UPDATE " \o table.name \o " SET " \o params_to_string(param_list, "", FALSE, TRUE)
                \o " WHERE " \o pk \o " = $" \o pk,
     auth_required |-> TRUE, allowed_roles |-> <<"*">>,
     description |-> "Updates an existing entry in '" \o table.name \o "' by its primary key",
     request_body_params |-> ref]

generate_delete(route, table, pk) ==
    [route |-> route, method |-> "DELETE",
     sql |-> "DELETE FROM " \o table.name \o " WHERE " \o pk \o " = $" \o pk,
     auth_required |-> TRUE, allowed_roles |-> <<"*">>,
     description |-> "Deletes an existing entry in '" \o table.name \o "' by its primary key"]

\* the table the loop is at, and the locals of its iteration
table == tables[table_index]

\* get_primary_key(table[0])
pk == schema[table_index].pk

\* is_auto_increment(table[0], pk)
is_AI == schema[table_index].is_AI

\* table[0].lower()
name == Lower(table.name)

\* rmtree(auto_dir): the files outside endpoints/auto
RmTree(fs) == [f \in {f \in DOMAIN fs : ~StartsWith(f, "endpoints/auto/")} |-> fs[f]]

\* the folder handling and get_tables()
CreateEntityEndpoints ==
    /\ pc = "create_api"
    /\ files' = RmTree(files)
    /\ tables' = [i \in 1..Len(schema) |-> [name |-> schema[i].name, columns |-> schema[i].columns]]
    /\ table_index' = 1
    /\ pc' = "table"
    /\ UNCHANGED <<settings, decl, closure, app_rules, api_summary, log, request, response,
                   dal_calls, fq, schema, existing_routes_method_pairs, endpoints, ep_tuples>>

\* the head of the loop over the tables: table[1].remove(pk); the database
\* has no views, so the function returns after the last table
NextTable ==
    /\ pc = "table"
    /\ IF table_index <= Len(tables)
       THEN /\ tables' = [tables EXCEPT ![table_index].columns = ListRemove(@, pk)]
            /\ pc' = "get_all"
       ELSE /\ tables' = tables
            /\ pc' = "created"
    /\ endpoints' = <<>>
    /\ ep_tuples' = <<>>
    /\ UNCHANGED <<settings, decl, closure, app_rules, api_summary, log, request, response,
                   dal_calls, fq, schema, existing_routes_method_pairs, table_index, files>>

\* one "if (route, method) not in existing_routes_method_pairs" block: the
\* endpoint res is recorded under the operation op, unless the user has it
Generate(op, route, method, res, next) ==
    /\ pc' = next
    /\ IF <<route, method>> \notin existing_routes_method_pairs
       THEN /\ endpoints' = (op :> res) @@ endpoints
            /\ ep_tuples' = Append(ep_tuples, <<op, route, method, pk, res.description>>)
       ELSE UNCHANGED <<endpoints, ep_tuples>>
    /\ UNCHANGED <<settings, decl, closure, app_rules, api_summary, log, request, response,
                   dal_calls, fq, schema, existing_routes_method_pairs, table_index, files>>

GenerateGetAll ==
    /\ pc = "get_all"
    /\ Generate("getAll", "/" \o name, "GET", generate_get_all("/" \o name, table), "get_by_id")
    /\ UNCHANGED tables

GenerateGetById ==
    /\ pc = "get_by_id"
    /\ LET get_by_id_route == "/" \o name \o "/$" \o pk IN
          Generate("getById", get_by_id_route, "GET",
                   generate_get_by_id(get_by_id_route, table, pk), "create")
    /\ UNCHANGED tables

GenerateCreate ==
    /\ pc = "create"
    /\ LET create_route == "/" \o name IN
          /\ Generate("create", create_route, "POST",
                      generate_create(create_route, table, ListOf(table_index), pk, is_AI),
                      "update")
          /\ tables' = IF <<create_route, "POST">> \notin existing_routes_method_pairs
                       THEN [tables EXCEPT ![table_index].columns =
                                               generate_create_param_list(table, pk, is_AI)]
                       ELSE tables

GenerateUpdate ==
    /\ pc = "update"
    /\ LET udpate_route == "/" \o name \o "/$" \o pk IN
          Generate("update", udpate_route, "PUT",
                   generate_update(udpate_route, table, ListOf(table_index), pk), "delete")
    /\ UNCHANGED tables

GenerateDelete ==
    /\ pc = "delete"
    /\ LET delete_route == "/" \o name \o "/$" \o pk IN
          Generate("delete", delete_route, "DELETE",
                   generate_delete(delete_route, table, pk), "files")
    /\ UNCHANGED tables

\* json.dumps(dicts): a list an endpoint refers to is written as it is now
Dumped(dicts) ==
    [op \in DOMAIN dicts |->
        IF "request_body_params" \in DOMAIN dicts[op]
        THEN [dicts[op] EXCEPT !.request_body_params = tables[@.list_of_table].columns]
        ELSE dicts[op]]

\* generate_API_file_for_endpoints and dicts_to_file, then the next table
WriteFiles ==
    /\ pc = "files"
    /\ files' = (IF endpoints # <<>>
                 THEN ("endpoints/auto/" \o name \o ".json") :> Dumped(endpoints)
                 ELSE <<>>)
                @@ (("web/js/api/_" \o name \o ".js") :> ep_tuples)
                @@ files
    /\ table_index' = table_index + 1
    /\ pc' = "table"
    /\ UNCHANGED <<settings, decl, closure, app_rules, api_summary, log, request, response,
                   dal_calls, fq, schema, existing_routes_method_pairs, tables, endpoints,
                   ep_tuples>>

\* the databases explored: a table Emp keyed by id, alone or followed by a
\* table Dept keyed by code, either key auto-increment or not
Databases ==
    LET Emp  == [name : {"Emp"}, columns : {<<"id", "nm">>, <<"nm", "id", "age">>},
                 pk : {"id"}, is_AI : BOOLEAN]
        Dept == [name : {"Dept"}, columns : {<<"code", "title">>}, pk : {"code"},
                 is_AI : BOOLEAN]
    IN  {<<e>> : e \in Emp} \cup {<<e, d>> : e \in Emp, d \in Dept}

\* the endpoints the user may have written for Emp
UserEndpoints ==
    SUBSET {<<"/emp", "GET">>, <<"/emp/$id", "GET">>, <<"/emp", "POST">>,
            <<"/emp/$id", "PUT">>, <<"/emp/$id", "DELETE">>}

InitCreator ==
    /\ pc = "create_api"
    /\ settings = NoSettings
    /\ decl = NoDecl
    /\ closure = NoClosure
    /\ app_rules = {}
    /\ api_summary = <<>>
    /\ log = {}
    /\ request = NoRequest
    /\ response = NoResponse
    /\ dal_calls = <<>>
    /\ fq = NoCall
    /\ schema \in Databases
    /\ existing_routes_method_pairs \in UserEndpoints
    /\ tables = <<>>
    /\ table_index = 0
    /\ endpoints = <<>>
    /\ ep_tuples = <<>>
    /\ files \in {<<>>, ("endpoints/auto/old.json" :> <<>>) @@ ("web/js/api/_old.js" :> <<>>)}

NextCreator ==
    \/ CreateEntityEndpoints
    \/ NextTable
    \/ GenerateGetAll
    \/ GenerateGetById
    \/ GenerateCreate
    \/ GenerateUpdate
    \/ GenerateDelete
    \/ WriteFiles

SpecCreator == InitCreator /\ [][NextCreator]_vars

-----------------------------------------------------------------------------
(* Claims about registration, under SpecSetup.                             *)

\* the names n such that $n stands in s, n a whole run of word characters
NamesIn(s) ==
    LET sigils == {i \in 1..Len(s) : Ch(s, i) = "$"} IN
    UNION {{SubSeq(s, i + 1, e) :
              e \in {e \in (i + 1)..Len(s) :
                        /\ \A k \in (i + 1)..e : Ch(s, k) \in WordChars
                        /\ (e = Len(s) \/ Ch(s, e + 1) \notin WordChars)}} : i \in sigils}

Keyword(sql) == get_sql_op(sql)

Recognized == Keyword(decl.sql) \in {"select", "insert", "update", "delete"}

\* every placeholder of the query but loggedId is provided by the sources
\* the operation may use
Covered ==
    LET needed == NamesIn(decl.sql) \ {"loggedId"}
        body   == {decl.request_body_params[i] : i \in 1..Len(decl.request_body_params)}
    IN  IF Keyword(decl.sql) \in {"select", "delete"} THEN needed \subseteq NamesIn(decl.route)
        ELSE needed \subseteq NamesIn(decl.route) \cup body

SetUp == pc # "startup"

Installed == pc = "serving" /\ app_rules # {}

\* C1: for a declaration whose query has a recognized leading keyword and
\* whose allowed_roles is a list, whatever its method, auth_required and
\* roles, registration succeeds (the handler is installed) if and only if
\* every placeholder of the query other than loggedId is a placeholder of the
\* route (SELECT, DELETE) or of the route or request_body_params (INSERT,
\* UPDATE).
C1_RegistrationIffCovered ==
    (SetUp /\ Recognized /\ decl.allowed_roles.is_list) => (Installed <=> Covered)

C1_Witness ==
    /\ Installed
    /\ decl.sql = "INSERT INTO u (nm, o) VALUES ($nm, $loggedId)"
    /\ decl.route = "/u"
    /\ decl.request_body_params = <<"nm">>
    /\ decl.method = "get"
    /\ decl.allowed_roles = Roles(<<>>)

Misconfigured == ~Recognized \/ ~decl.allowed_roles.is_list \/ ~Covered

\* C4: when setup_endpoint hits a fatal configuration error (an unrecognized
\* leading keyword, an allowed_roles that is not a list, a placeholder not
\* covered by the declared sources), registration aborts before the handler
\* is added to the application and before the endpoint is recorded in the
\* API summary.
C4_NoPartialRoute ==
    /\ (SetUp /\ Misconfigured) => (pc = "exited" /\ app_rules = {} /\ api_summary = <<>>)
    /\ (pc = "exited") => (app_rules = {} /\ api_summary = <<>>)

C4_Witness ==
    /\ pc = "exited"
    /\ decl.sql = "MERGE INTO u VALUES ($id)"
    /\ decl.route = "/u/$id"
    /\ decl.allowed_roles = Roles(<<"*">>)
    /\ "error: unsupported query" \in log

-----------------------------------------------------------------------------
(* Claims about the request handler, under Spec.                           *)

Responded == pc = "responded"

\* the caller's identity, as the token service decodes it
Callers ==
    {[token |-> "tok-admin", pk |-> "1", role |-> SomeStr("admin")],
     [token |-> "tok-user", pk |-> "2", role |-> SomeStr("user")],
     [token |-> "tok-norole", pk |-> "3", role |-> NoStr]}

Identified == \E c \in Callers : request.token = SomeStr(c.token)

Caller == CHOOSE c \in Callers : request.token = SomeStr(c.token)

AllowedRoles == {decl.allowed_roles.items[i] : i \in 1..Len(decl.allowed_roles.items)}

RoleConfigured == ~settings.role.none

RoleRejected ==
    /\ Identified
    /\ RoleConfigured
    /\ "*" \notin AllowedRoles
    /\ (Caller.role.none \/ Caller.role.s \notin AllowedRoles)

Rejected401 == response.status = 401 /\ dal_calls = <<>>

\* C2: for an endpoint with auth_required=true the data layer is called only
\* after the authorization gate has passed: a request with no established
\* identity ends with 401 and no query, and, when a role claim is configured,
\* so does a request whose role is not in allowed_roles, "*" not being in it.
C2_GateBeforeQuery ==
    (Responded /\ decl.auth_required) =>
        /\ ~Identified => Rejected401
        /\ RoleRejected => Rejected401
        /\ dal_calls # <<>> => (Identified /\ ~RoleRejected)

C2_Witness ==
    /\ Responded /\ decl.auth_required
    /\ request.token = SomeStr("tok-user")
    /\ decl.allowed_roles = Roles(<<"admin">>)
    /\ RoleConfigured
    /\ Rejected401

\* the value loggedId stands for: the caller's primary key, None without an
\* identity (or without a primary key on the users table)
CallerId == IF Identified /\ ~settings.pk.none THEN UserVal(Caller.pk) ELSE NoneVal

PassedTheGate == response.status # 401

\* C3 as stated: for every endpoint whose query references $loggedId, of any
\* operation kind, every request that passes the authorization gate executes
\* the query with loggedId bound to the caller's primary key, or to null
\* without an identity; never to a value of the URL or the body.
C3_LoggedIdFromIdentity ==
    (Responded /\ "loggedId" \in NamesIn(decl.sql) /\ PassedTheGate) =>
        /\ Len(dal_calls) = 1
        /\ \A i \in 1..Len(closure.sql_params) :
              closure.sql_params[i] = "loggedId" => dal_calls[1].params[i] = CallerId

\* C5 as stated: an endpoint registered with auth_required=true and an empty
\* allowed_roles is unreachable: every request to it, whatever token and
\* role the caller presents, is rejected with 401 and executes no query.
\* (Stated on the endpoints whose query does not use $loggedId, so that what
\* refutes it is a request that is served, not one that fails on loggedId.)
C5_NoRolesNoAccess ==
    (Responded /\ decl.auth_required /\ decl.allowed_roles = Roles(<<>>)
        /\ "loggedId" \notin NamesIn(decl.sql)) => Rejected401

\* the route ends in $name or in $name/
EndsInPlaceholder ==
    \E n \in NamesIn(decl.route) :
        EndsWith(decl.route, "$" \o n) \/ EndsWith(decl.route, "$" \o n \o "/")

QueryRan == Len(dal_calls) = 1 /\ dal_calls[1].fn = "api_safe_query"

\* C6: on a read endpoint whose route ends in a placeholder (optionally
\* followed by one slash) a request whose query returns zero rows yields 404;
\* on a read endpoint whose route does not, 404 is never given and zero rows
\* yield status 200 with an empty list.
C6_NotFoundOnlyOnSingleResource ==
    (Responded /\ Keyword(decl.sql) = "select" /\ QueryRan) =>
        /\ (EndsInPlaceholder /\ request.db_rows = <<>>) => response.status = 404
        /\ ~EndsInPlaceholder => response.status # 404
        /\ (~EndsInPlaceholder /\ request.db_rows = <<>>) =>
              (response.status = 200 /\ response.body = "rows" /\ response.rows = <<>>)

C6_Witness ==
    /\ Responded /\ QueryRan
    /\ decl.route = "/u/$id/"
    /\ request.db_rows = <<>>
    /\ response.status = 404

\* the request served, with its Token header taken away
WithoutToken == [request EXCEPT !.token = NoStr]

\* the response and the data-layer calls are those the same request gets
\* when it carries no token
AsWithoutToken ==
    LET r == route_handler(decl, closure, settings, WithoutToken) IN
        /\ response = [status |-> r.status, body |-> r.body, rows |-> r.rows]
        /\ dal_calls = r.calls

\* no value of a decoded token is bound into the query
NoIdentityBound ==
    \A k \in 1..Len(dal_calls) : \A i \in 1..Len(dal_calls[k].params) :
        dal_calls[k].params[i].src # "user"

\* C11: for an endpoint with auth_required=false, a request with no token, an
\* empty token or a token that fails verification is never answered 401; it
\* is answered, and reaches the data layer, exactly as the same request
\* without a token is; no identity is bound; and when the query does not
\* reference $loggedId the query is executed.
C11_TokenFailureIsNoFailure ==
    (Responded /\ ~decl.auth_required /\ ~Identified) =>
        /\ response.status # 401
        /\ AsWithoutToken
        /\ NoIdentityBound
        /\ "loggedId" \notin NamesIn(decl.sql) => (Len(dal_calls) = 1 /\ response.status \in {200, 404})

C11_Witness ==
    /\ Responded /\ ~decl.auth_required
    /\ request.token = SomeStr("forged")
    /\ decl.sql = "SELECT * FROM u WHERE id = $id AND o = $loggedId"
    /\ ~settings.pk.none
    /\ response.status = 200
    /\ Len(dal_calls) = 1
    /\ dal_calls[1].params = <<UrlVal("id"), NoneVal>>

\* the positions of the query template where a placeholder begins
Sigils ==
    {i \in 1..(Len(decl.sql) - 1) : Ch(decl.sql, i) = "$" /\ Ch(decl.sql, i + 1) \in WordChars}

\* the position of the k-th placeholder of the query template
SigilAt(k) == CHOOSE i \in Sigils : Cardinality({j \in Sigils : j <= i}) = k

\* the name of the placeholder beginning at position i
NameAt(i) ==
    LET e == CHOOSE e \in (i + 1)..Len(decl.sql) :
                /\ \A k \in (i + 1)..e : Ch(decl.sql, k) \in WordChars
                /\ (e = Len(decl.sql) \/ Ch(decl.sql, e + 1) \notin WordChars)
    IN  SubSeq(decl.sql, i + 1, e)

\* the value the request gives to a placeholder name
ValueOf(n) ==
    IF Keyword(decl.sql) = "select" THEN UrlVal(n)
    ELSE IF n \in NamesIn(decl.route) THEN UrlVal(n)
    ELSE IF n \in DOMAIN request.form THEN BodyVal(n)
    ELSE NoneVal

\* C12: for a registered endpoint whose query template does not reference
\* $loggedId, every request that passes the authorization gate reaches the
\* data layer once, with a tuple that has one value per placeholder
\* occurrence of the template, in order of occurrence and duplicates
\* repeated, the i-th value being that of the i-th placeholder's name: its URL
\* capture for SELECT; for INSERT, UPDATE and DELETE its URL capture when the
\* route has a placeholder of that name (also when the body declares it),
\* otherwise the body field of that name, or null when the body lacks it.
C12_BoundTupleFollowsTemplate ==
    (Responded /\ "loggedId" \notin NamesIn(decl.sql) /\ PassedTheGate) =>
        /\ Len(dal_calls) = 1
        /\ Len(dal_calls[1].params) = Cardinality(Sigils)
        /\ \A k \in 1..Cardinality(Sigils) : dal_calls[1].params[k] = ValueOf(NameAt(SigilAt(k)))

C12_Witness ==
    /\ Responded
    /\ decl.sql = "INSERT INTO u (nm, id, nn) VALUES ($nm, $id, $nm)"
    /\ decl.route = "/u/$id"
    /\ decl.request_body_params = <<"id", "nm">>
    /\ DOMAIN request.form = {"id", "nm", "loggedId"}
    /\ dal_calls = <<[fn |-> "api_safe_update",
                      query |-> "INSERT INTO u (nm, id, nn) VALUES (%s, %s, %s)",
                      params |-> <<BodyVal("nm"), UrlVal("id"), BodyVal("nm")>>]>>

-----------------------------------------------------------------------------
(* Claims about filter_query_results, under SpecShaper.                    *)

Returned == pc = "shaper_returned"

\* a sort column is given and is a column of the rows
SortApplies ==
    /\ "_sort" \in DOMAIN fq.args
    /\ \A i \in 1..Len(fq.data) : fq.args["_sort"] \in DOMAIN fq.data[i]

Descending == "_order" \in DOMAIN fq.args /\ fq.args["_order"] = "desc"

SortValue(row) == row[fq.args["_sort"]]

\* v is not above w, for two values of one column, neither None
NotAbove(v, w) == IF v.t = "int" THEN v.i <= w.i ELSE v.s = w.s \/ StrLt(v.s, w.s)

SameRows(a, b) == Len(a) = Len(b) /\ {a[i] : i \in 1..Len(a)} = {b[i] : i \in 1..Len(b)}

NullsBeforeValues(rows) ==
    \A i, j \in 1..Len(rows) :
        (SortValue(rows[i]) = Null /\ SortValue(rows[j]) # Null) => i < j

NullsAfterValues(rows) ==
    \A i, j \in 1..Len(rows) :
        (SortValue(rows[i]) = Null /\ SortValue(rows[j]) # Null) => j < i

\* C7 as stated: in filter_query_results, when a sort column is given and
\* present on the rows, the rows with a null sort value come before all rows
\* with a non-null value in both sort directions, and sorting never fails.
C7_NullsFirstInBothDirections ==
    (Returned /\ SortApplies) => (fq.raised = "" /\ NullsBeforeValues(fq.sorted))

\* C7 as amended: the rows with a null sort value come before all rows with a
\* non-null value when sorting ascending and after all of them with
\* _order=desc, and sorting never fails on a null compared with a value.
C7_NullsAtTheLowEnd ==
    (Returned /\ SortApplies) =>
        /\ fq.raised = ""
        /\ SameRows(fq.sorted, fq.filtered)
        /\ IF Descending THEN NullsAfterValues(fq.sorted) ELSE NullsBeforeValues(fq.sorted)

C7_Witness ==
    /\ Returned /\ SortApplies /\ Descending
    /\ Len(fq.sorted) = 3
    /\ SortValue(fq.data[1]) = Null
    /\ SortValue(fq.data[2]) # Null
    /\ SortValue(fq.sorted[3]) = Null

C8_General ==
    (Returned /\ SortApplies) =>
        /\ fq.raised = ""
        /\ SameRows(fq.sorted, fq.filtered)
        /\ \A i, j \in 1..Len(fq.sorted) :
              i < j =>
                LET lo == SortValue(fq.sorted[IF Descending THEN j ELSE i])
                    hi == SortValue(fq.sorted[IF Descending THEN i ELSE j])
                IN  lo = Null \/ (hi # Null /\ NotAbove(lo, hi))
        /\ ("_limit" \notin DOMAIN fq.args) => fq.out = fq.sorted

\* the example of the specification: [{v:null},{v:5},{v:2}]
C8_ExampleRows ==
    /\ Len(fq.data) = 3
    /\ fq.data[1]["v"] = Null /\ fq.data[2]["v"] = IntV(5) /\ fq.data[3]["v"] = IntV(2)
    /\ fq.args["_sort"] = "v"

C8_Example ==
    (Returned /\ SortApplies /\ C8_ExampleRows) =>
        [i \in 1..3 |-> fq.out[i]["v"]] =
            IF Descending THEN <<IntV(5), IntV(2), Null>> ELSE <<Null, IntV(2), IntV(5)>>

\* C8: with _sort naming a column present on every row, without _order=desc
\* the result lists the rows with a null sort value first and then the
\* non-null rows in increasing order of the sort value; with _order=desc it
\* lists the non-null rows in decreasing order and then the null rows; so for
\* [{v:null},{v:5},{v:2}], [null,2,5] ascending and [5,2,null] descending.
C8_SortOrder == C8_General /\ C8_Example

C8_Witness == Returned /\ SortApplies /\ C8_ExampleRows /\ Descending /\ fq.out[1]["v"] = IntV(5)

\* What a query-string value says as a number, read off the spellings the
\* explored query strings use; any other spelling is not a number.
Numerals == {<<"0", 0>>, <<"1", 1>>, <<"2", 2>>, <<"3", 3>>, <<"-1", -1>>}

IsNumber(key) == key \in DOMAIN fq.args /\ \E p \in Numerals : p[1] = fq.args[key]

NumberOf(key) == (CHOOSE p \in Numerals : p[1] = fq.args[key])[2]

\* R[a, b): the rows of R at the (0-based) positions a, ..., b-1 that exist
Segment(R, a, b) ==
    LET lo == IF a > Len(R) THEN Len(R) ELSE a
        hi == IF b > Len(R) THEN Len(R) ELSE b
    IN  [k \in 1..(hi - lo) |-> R[lo + k]]

\* C9: with R the filtered and sorted rows, a positive _limit L and a
\* non-negative _page P give R[L*P, L*P+L); a positive _limit alone (or with
\* a missing or non-numeric _page) gives R[0, L); a missing, non-numeric or
\* zero _limit gives all of R whatever _page is; a non-numeric _limit or
\* _page never raises.
C9_Pagination ==
    Returned =>
        /\ fq.raised = ""
        /\ (IsNumber("_limit") /\ NumberOf("_limit") > 0 /\ IsNumber("_page") /\ NumberOf("_page") >= 0)
              => fq.out = Segment(fq.sorted, NumberOf("_limit") * NumberOf("_page"),
                                  NumberOf("_limit") * NumberOf("_page") + NumberOf("_limit"))
        /\ (IsNumber("_limit") /\ NumberOf("_limit") > 0 /\ ~IsNumber("_page"))
              => fq.out = Segment(fq.sorted, 0, NumberOf("_limit"))
        /\ (~IsNumber("_limit") \/ NumberOf("_limit") = 0) => fq.out = fq.sorted

\* the example of the specification, on the longest result set: _limit=3&_page=1
C9_Witness ==
    /\ Returned
    /\ Len(fq.sorted) = MaxPageRows
    /\ "_limit" \in DOMAIN fq.args /\ fq.args["_limit"] = "3"
    /\ "_page" \in DOMAIN fq.args /\ fq.args["_page"] = "1"
    /\ fq.out = SubSeq(fq.sorted, 4, 6)

\* the keys of the query string that filter a row: not starting with an
\* underscore, and a column of the row
FilterKeys(row) == {k \in DOMAIN fq.args : Ch(k, 1) # "_" /\ k \in DOMAIN row}

EqualIgnoringCase(a, b) == Upper(a) = Upper(b)

Retained(row) == \A k \in FilterKeys(row) : EqualIgnoringCase(Str(row[k]), fq.args[k])

\* C10: a row is retained if and only if, for every query-string key that
\* does not start with an underscore and is a column of the row, the row's
\* value converted to a string equals the query-string value ignoring case;
\* the retained rows keep their relative order.
C10_Filter ==
    Returned =>
        /\ \A i \in 1..Len(fq.data) :
              Retained(fq.data[i]) <=> (\E j \in 1..Len(fq.filtered) : fq.filtered[j] = fq.data[i])
        /\ \A j \in 1..Len(fq.filtered) : \E i \in 1..Len(fq.data) : fq.filtered[j] = fq.data[i]
        /\ \A i, j \in 1..Len(fq.filtered) :
              i < j => fq.filtered[i]["id"].i < fq.filtered[j]["id"].i

\* {name:"Bob"} against ?name=BOB is kept, the row after it is dropped
C10_Witness ==
    /\ Returned
    /\ Len(fq.data) = 2
    /\ "name" \in DOMAIN fq.data[1] /\ fq.data[1]["name"] = StrV("Bob")
    /\ "name" \in DOMAIN fq.args /\ fq.args["name"] = "BOB"
    /\ fq.filtered = <<fq.data[1]>>

-----------------------------------------------------------------------------
(* Claims about create_entity_endpoints, under SpecCreator.                *)

\* the columns of the i-th table of the database, its primary key left out
ColumnsWithoutKey(i) == SelectSeq(schema[i].columns, LAMBDA col : col # schema[i].pk)

\* "c1 = $c1, c2 = $c2, ..." for the columns cols
RECURSIVE Assignments(_)
Assignments(cols) ==
    IF Len(cols) = 1 THEN cols[1] \o " = $" \o cols[1]
    ELSE Assignments(SubSeq(cols, 1, Len(cols) - 1)) \o ", "
            \o cols[Len(cols)] \o " = $" \o cols[Len(cols)]

\* the update statement of the i-th table over the columns cols
UpdateOver(i, cols) ==
    "UPDATE " \o schema[i].name \o " SET " \o Assignments(cols)
        \o " WHERE " \o schema[i].pk \o " = $" \o schema[i].pk

\* the JSON file generated for the i-th table
FileOf(i) == "endpoints/auto/" \o Lower(schema[i].name) \o ".json"

\* C13 as stated: the parameter list of a table's generated update endpoint,
\* in its SET clause and in its request_body_params, is the table's columns
\* without the primary key, whether or not the create endpoint was generated
\* before it and whether or not the primary key is auto-increment: both when
\* the update endpoint has just been generated and in the file written.
C13_UpdateHasItsOwnParameterList ==
    /\ (pc \in {"delete", "files"} /\ "update" \in DOMAIN endpoints) =>
          /\ endpoints["update"].sql = UpdateOver(table_index, ColumnsWithoutKey(table_index))
          /\ tables[endpoints["update"].request_body_params.list_of_table].columns
                = ColumnsWithoutKey(table_index)
    /\ \A i \in 1..Len(schema) :
          (FileOf(i) \in DOMAIN files /\ "update" \in DOMAIN files[FileOf(i)]) =>
              /\ files[FileOf(i)]["update"].sql = UpdateOver(i, ColumnsWithoutKey(i))
              /\ files[FileOf(i)]["update"].request_body_params = ColumnsWithoutKey(i)

====
